---- MODULE Spec2Model ----
(***************************************************************************)
(* Dynamic schema mutation of app/main.py: create_table, update_table      *)
(* (copy / rebuild / swap), get_db_schema, and the two places that put     *)
(* rows into the fixed table "projects" (startup_event, create_project).   *)
(*                                                                         *)
(* The storage engine is the environment.  It is modelled by what the      *)
(* code asks of it: a connection, a transaction whose statements act on a  *)
(* private view (work) that commit publishes and rollback discards, and    *)
(* statements that the engine may reject.  inspect(engine) reads the       *)
(* committed catalog, not the view of the request's own connection.        *)
(*                                                                         *)
(* Identifiers are sequences of text pieces, so that the f-string that     *)
(* builds the temporary name is a real concatenation.                      *)
(***************************************************************************)
EXTENDS Integers, Sequences, FiniteSets, TLC

VARIABLES catalog, work, req, hist, calls, schemaResp

vars == <<catalog, work, req, hist, calls, schemaResp>>

(***************************************************************************)
(* Bounds of the model.                                                    *)
(***************************************************************************)
MaxCalls == 2       \* schema mutation requests in one behaviour
MaxCols == 2        \* columns in a requested TableCreate / TableUpdate
MaxStamp == 1       \* values of int(datetime.utcnow().timestamp())
MaxRows == 2        \* rows of the table "projects"

(***************************************************************************)
(* Optional values of the request models (Optional[str], Optional[...]).   *)
(***************************************************************************)
NoneStr == [some |-> FALSE, v |-> ""]
SomeStr(s) == [some |-> TRUE, v |-> s]

NoneName == [some |-> FALSE, v |-> <<>>]
SomeName(n) == [some |-> TRUE, v |-> n]

NoneFk == [some |-> FALSE, table |-> <<>>, column |-> ""]
SomeFk(t, c) == [some |-> TRUE, table |-> t, column |-> c]

(***************************************************************************)
(* Cell values.  Null is SQL NULL, Dflt(e) the value of the DEFAULT        *)
(* expression e, Val(c, n) the value written into column c of the n-th     *)
(* project.                                                                *)
(***************************************************************************)
Null == [k |-> "null", c |-> "", n |-> 0]
Dflt(e) == [k |-> "default", c |-> e, n |-> 0]
Val(c, n) == [k |-> "value", c |-> c, n |-> n]

(***************************************************************************)
(* Sequence helpers.                                                       *)
(***************************************************************************)
Range(s) == {s[i] : i \in DOMAIN s}

RECURSIVE SeqsUpTo(_, _)
SeqsUpTo(S, n) ==
    IF n = 0 THEN {<<>>}
    ELSE LET shorter == SeqsUpTo(S, n - 1)
         IN  shorter \cup {Append(s, x) : s \in {t \in shorter : Len(t) = n - 1}, x \in S}

RECURSIVE SelectSeqBy(_, _)
\* the list comprehension [x for x in s if x.name in names]
SelectSeqBy(s, names) ==
    IF s = <<>> THEN <<>>
    ELSE IF Head(s).name \in names
         THEN <<Head(s)>> \o SelectSeqBy(Tail(s), names)
         ELSE SelectSeqBy(Tail(s), names)

ColNames(cols) == [i \in DOMAIN cols |-> cols[i].name]

(***************************************************************************)
(* Identifiers.                                                            *)
(***************************************************************************)
Digit(d) ==
    CASE d = 0 -> "0" [] d = 1 -> "1" [] d = 2 -> "2" [] d = 3 -> "3"
      [] d = 4 -> "4" [] d = 5 -> "5" [] d = 6 -> "6" [] d = 7 -> "7"
      [] d = 8 -> "8" [] d = 9 -> "9"

RECURSIVE Str(_)
\* str(int): the decimal digits of a natural number
Str(n) == IF n < 10 THEN <<Digit(n)>> ELSE Str(n \div 10) \o <<Digit(n % 10)>>

Projects == <<"projects">>
Renamed == <<"renamed">>

\* f"{table_name}_temp_{int(datetime.utcnow().timestamp())}"
TempName(table_name, stamp) == table_name \o <<"_temp_">> \o Str(stamp)

Stamps == 1 .. MaxStamp

(***************************************************************************)
(* The fixed table "projects" (class Project) and the row that             *)
(* startup_event puts into it.                                             *)
(***************************************************************************)
LiveCol(name, type, notnull, dflt, pk) ==
    [name |-> name, type |-> type, notnull |-> notnull, dflt |-> dflt, pk |-> pk]

ProjectColumns ==
    << LiveCol("id", "INTEGER", TRUE, NoneStr, TRUE),
       LiveCol("name", "VARCHAR", FALSE, NoneStr, FALSE),
       LiveCol("description", "VARCHAR", FALSE, NoneStr, FALSE),
       LiveCol("created_at", "DATETIME", FALSE, NoneStr, FALSE),
       LiveCol("updated_at", "DATETIME", FALSE, NoneStr, FALSE) >>

ProjectRow(n) == [c \in Range(ColNames(ProjectColumns)) |-> Val(c, n)]

Table(cols, fks, rows) == [cols |-> cols, fks |-> fks, rows |-> rows]

StartupCatalog == (Projects :> Table(ProjectColumns, <<>>, <<ProjectRow(1)>>))

(***************************************************************************)
(* Request models: ColumnCreate, TableCreate, TableUpdate.                 *)
(***************************************************************************)
ColumnCreate(name, type, nullable, default, primary_key, foreign_key) ==
    [name |-> name, type |-> type, nullable |-> nullable, default |-> default,
     primary_key |-> primary_key, foreign_key |-> foreign_key]

\* the columns a request may carry: the key of "projects", a plain column of
\* "projects", a new column with a default and a reference, and a new column
\* whose default is the empty string
ColumnPool ==
    { ColumnCreate("id", "INTEGER", FALSE, NoneStr, TRUE, NoneFk),
      ColumnCreate("name", "VARCHAR", TRUE, NoneStr, FALSE, NoneFk),
      ColumnCreate("owner", "INTEGER", TRUE, SomeStr("0"), FALSE, SomeFk(Projects, "id")),
      ColumnCreate("note", "TEXT", TRUE, SomeStr(""), FALSE, NoneFk) }

ColumnLists == SeqsUpTo(ColumnPool, MaxCols)

\* names a request can carry for a table
CreateNames == {Projects, Renamed} \cup {TempName(Projects, s) : s \in Stamps}
UpdateTargets == {Projects, Renamed}
UpdateNames == {NoneName, SomeName(<<>>), SomeName(Projects), SomeName(Renamed)}

(***************************************************************************)
(* Statements handed to connection.execute.                                *)
(***************************************************************************)
Stmt(op, table, cols, fks, names, other) ==
    [op |-> op, table |-> table, cols |-> cols, fks |-> fks, names |-> names,
     other |-> other]

\* a FOREIGN KEY clause; named is FALSE when the clause has no CONSTRAINT part
FkClause(named, cname, col, rtable, rcol) ==
    [named |-> named, cname |-> cname, col |-> col, rtable |-> rtable, rcol |-> rcol]

\* CreateColDef as it would be without the NOT NULL part
CreateColDefNullable(col) ==
    LiveCol(col.name, col.type, FALSE,
            IF col.default.some THEN col.default ELSE NoneStr,
            col.primary_key)

\* create_table: '"name" type [NOT NULL] [DEFAULT default] [PRIMARY KEY]'
CreateColDef(col) ==
    LiveCol(col.name, col.type, ~col.nullable,
            IF col.default.some THEN col.default ELSE NoneStr,
            col.primary_key)

\* update_table: the same, but an empty default is left out
UpdateColDef(col) ==
    LiveCol(col.name, col.type, ~col.nullable,
            IF col.default.some /\ col.default.v # "" THEN col.default ELSE NoneStr,
            col.primary_key)

\* fk_{table.name}_{col.name}_{idx}, idx counted from 0 by enumerate
CreateFkName(table, col, idx) == <<"fk_">> \o table \o <<"_", col, "_">> \o Str(idx)

RECURSIVE CreateFks(_, _, _)
CreateFks(table, columns, idx) ==
    IF idx >= Len(columns) THEN <<>>
    ELSE LET col == columns[idx + 1]
             rest == CreateFks(table, columns, idx + 1)
         IN  IF col.foreign_key.some
             THEN <<FkClause(TRUE, CreateFkName(table, col.name, idx), col.name,
                             col.foreign_key.table, col.foreign_key.column)>> \o rest
             ELSE rest

RECURSIVE UpdateFks(_)
UpdateFks(columns) ==
    IF columns = <<>> THEN <<>>
    ELSE LET col == Head(columns)
             rest == UpdateFks(Tail(columns))
         IN  IF col.foreign_key.some
             THEN <<FkClause(FALSE, <<>>, col.name,
                             col.foreign_key.table, col.foreign_key.column)>> \o rest
             ELSE rest

CreateTableSql(table, columns) ==
    Stmt("CREATE", table, [i \in DOMAIN columns |-> CreateColDef(columns[i])],
         CreateFks(table, columns, 0), <<>>, <<>>)

TempTableSql(temp, columns) ==
    Stmt("CREATE", temp, [i \in DOMAIN columns |-> UpdateColDef(columns[i])],
         UpdateFks(columns), <<>>, <<>>)

\* [col.name for col in table_update.columns if col.name in existing_columns]
CommonColumns(columns, existing_columns) ==
    ColNames(SelectSeqBy(columns, existing_columns))

\* CopySql as it would be if the SELECT read the new table instead of the old
CopySqlFromTemp(temp, common, table_name) == Stmt("INSERT", temp, <<>>, <<>>, common, temp)

CopySql(temp, common, table_name) == Stmt("INSERT", temp, <<>>, <<>>, common, table_name)
DropSql(table_name) == Stmt("DROP", table_name, <<>>, <<>>, <<>>, <<>>)
RenameSql(from, to) == Stmt("RENAME", from, <<>>, <<>>, <<>>, to)

(***************************************************************************)
(* The storage engine: which statements it rejects, and what an accepted   *)
(* statement does to the catalog seen by the connection.                   *)
(***************************************************************************)
NoDuplicates(names) == \A i, j \in DOMAIN names : names[i] = names[j] => i = j

\* the value a row gets in a column the INSERT does not name
Missing(col) == IF col.dflt.some THEN Dflt(col.dflt.v) ELSE Null

\* CREATE TABLE; the engine of SQLALCHEMY_DATABASE_URL (sqlite) does not look up
\* the table a REFERENCES clause names when the referring table is created
CanCreate(w, st) ==
    /\ st.table \notin DOMAIN w
    /\ Len(st.cols) > 0
    /\ NoDuplicates(ColNames(st.cols))
    /\ Cardinality({i \in DOMAIN st.cols : st.cols[i].pk}) <= 1
    /\ \A i \in DOMAIN st.cols : st.cols[i].dflt.some => st.cols[i].dflt.v # ""

CanInsert(w, st) ==
    /\ st.names # <<>>
    /\ st.table \in DOMAIN w
    /\ st.other \in DOMAIN w
    /\ Range(st.names) \subseteq Range(ColNames(w[st.table].cols))
    /\ Range(st.names) \subseteq Range(ColNames(w[st.other].cols))
    /\ \A i \in DOMAIN w[st.table].cols, r \in DOMAIN w[st.other].rows :
          LET col == w[st.table].cols[i]
          IN  col.notnull =>
                 IF col.name \in Range(st.names)
                 THEN w[st.other].rows[r][col.name] # Null
                 ELSE col.dflt.some

Accepts(w, st) ==
    CASE st.op = "CREATE" -> CanCreate(w, st)
      [] st.op = "INSERT" -> CanInsert(w, st)
      [] st.op = "DROP" -> st.table \in DOMAIN w
      [] st.op = "RENAME" -> st.table \in DOMAIN w /\ st.other \notin DOMAIN w

Without(w, name) == [t \in DOMAIN w \ {name} |-> w[t]]

CopiedRow(cols, names, row) ==
    [c \in Range(ColNames(cols)) |->
        IF c \in Range(names) THEN row[c]
        ELSE Missing(CHOOSE col \in Range(cols) : col.name = c)]

Apply(w, st) ==
    CASE st.op = "CREATE" ->
            (st.table :> Table(st.cols, st.fks, <<>>)) @@ w
      [] st.op = "INSERT" ->
            [w EXCEPT ![st.table].rows =
                @ \o [i \in DOMAIN w[st.other].rows |->
                        CopiedRow(w[st.table].cols, st.names, w[st.other].rows[i])]]
      [] st.op = "DROP" -> Without(w, st.table)
      [] st.op = "RENAME" -> (st.other :> w[st.table]) @@ Without(w, st.table)

\* trans.commit() publishes the view, trans.rollback() discards it
Committed(cat, w) == w
RolledBack(cat, w) == cat

(***************************************************************************)
(* Introspection: inspector.get_table_names / get_columns, as reported by  *)
(* get_db_schema and by the two handlers.                                  *)
(***************************************************************************)
TableNames(cat) == DOMAIN cat

ReportColumn(column) ==
    [name |-> column.name, type |-> column.type, nullable |-> ~column.notnull,
     default |-> column.dflt, primary_key |-> column.pk]

ReportColumns(cat, table_name) ==
    [i \in DOMAIN cat[table_name].cols |-> ReportColumn(cat[table_name].cols[i])]

ReportFk(fk) ==
    [constrained_columns |-> <<fk.col>>, referred_table |-> fk.rtable,
     referred_columns |-> <<fk.rcol>>]

ReportFks(cat, table_name) ==
    [i \in DOMAIN cat[table_name].fks |-> ReportFk(cat[table_name].fks[i])]

GetDbSchema(cat) ==
    [t \in TableNames(cat) |->
        [columns |-> ReportColumns(cat, t), foreign_keys |-> ReportFks(cat, t)]]

(***************************************************************************)
(* State.                                                                  *)
(*   catalog    the committed tables of the database file                  *)
(*   work       the tables as seen inside the open transaction             *)
(*   req        the request being served: handler, position, locals        *)
(*   hist       what happened during the request (for the properties)      *)
(*   calls      schema mutation requests started so far                    *)
(*   schemaResp the answer of get_db_schema, while it is the latest answer *)
(***************************************************************************)
NoResponse == [name |-> <<>>, columns |-> <<>>, foreign_keys |-> <<>>]
NoSchema == [fresh |-> FALSE, schema |-> <<>>]

Idle ==
    [op |-> "none", pc |-> "idle", table_name |-> <<>>, name |-> NoneName,
     columns |-> <<>>, conn |-> "unbound", trans |-> "none",
     existing_columns |-> {}, temp_table_name |-> <<>>, exc |-> "none",
     response |-> NoResponse]

NoHist ==
    [pre |-> <<>>, target |-> <<>>, sent |-> <<>>, closes |-> 0,
     failedAt |-> "none", fault |-> FALSE, bodyExc |-> "none",
     rollbacks |-> <<>>]

Init ==
    /\ catalog = StartupCatalog
    /\ work = StartupCatalog
    /\ req = Idle
    /\ hist = NoHist
    /\ calls = 0
    /\ schemaResp = NoSchema

NewRequest(op, table_name, name, columns) ==
    [Idle EXCEPT !.op = op, !.pc = "connect", !.table_name = table_name,
                 !.name = name, !.columns = columns]

NewHist(table_name) == [NoHist EXCEPT !.pre = catalog, !.target = table_name]

\* a request for POST /api/db/tables/ arrives
StartCreate(name, columns) ==
    /\ req.pc = "idle"
    /\ calls < MaxCalls
    /\ req' = NewRequest("create", name, NoneName, columns)
    /\ hist' = NewHist(name)
    /\ calls' = calls + 1
    /\ schemaResp' = NoSchema
    /\ UNCHANGED <<catalog, work>>

\* a request for PUT /api/db/tables/{table_name} arrives
StartUpdate(table_name, name, columns) ==
    /\ req.pc = "idle"
    /\ calls < MaxCalls
    /\ req' = NewRequest("update", table_name, name, columns)
    /\ hist' = NewHist(table_name)
    /\ calls' = calls + 1
    /\ schemaResp' = NoSchema
    /\ UNCHANGED <<catalog, work>>

(***************************************************************************)
(* Steps the two handlers share in shape.                                  *)
(***************************************************************************)
\* an exception leaves the current step for the handler at pc `to`
Raise(exc, to) == [req EXCEPT !.exc = exc, !.pc = to]

\* connection = engine.connect()
Connect(op) ==
    /\ req.op = op
    /\ req.pc = "connect"
    /\ \E ok \in BOOLEAN :
          /\ req' = IF ok THEN [req EXCEPT !.conn = "open", !.pc = "begin"]
                    ELSE Raise("Error", "outer")
          /\ hist' = [hist EXCEPT !.fault = @ \/ ~ok]
    /\ UNCHANGED <<catalog, work, calls, schemaResp>>

\* trans = connection.begin()
Begin(op, next) ==
    /\ req.op = op
    /\ req.pc = "begin"
    /\ \E ok \in BOOLEAN :
          /\ req' = IF ok THEN [req EXCEPT !.trans = "active", !.pc = next]
                    ELSE Raise("Error", "outer")
          /\ hist' = [hist EXCEPT !.fault = @ \/ ~ok]
    /\ work' = catalog
    /\ UNCHANGED <<catalog, calls, schemaResp>>

\* Execute as it would be if a rejected statement did not raise
ExecuteIgnoringFailure(st, after) ==
    \E fault \in BOOLEAN :
        LET ok == Accepts(work, st) /\ ~fault
        IN  /\ work' = IF ok THEN Apply(work, st) ELSE work
            /\ req' = after
            /\ hist' = [hist EXCEPT !.sent = Append(@, st),
                                    !.failedAt = IF ok THEN @ ELSE req.pc,
                                    !.fault = @ \/ (fault /\ Accepts(work, st))]

\* connection.execute(text(st)), then on to `after`; the engine may reject
\* any statement, and rejects the ones Accepts excludes
Execute(st, after) ==
    \E fault \in BOOLEAN :
        LET ok == Accepts(work, st) /\ ~fault
        IN  /\ work' = IF ok THEN Apply(work, st) ELSE work
            /\ req' = IF ok THEN after ELSE Raise("Error", "except")
            /\ hist' = [hist EXCEPT !.sent = Append(@, st),
                                    !.failedAt = IF ok THEN @ ELSE req.pc,
                                    !.fault = @ \/ (fault /\ Accepts(work, st))]

\* trans.commit()
Commit(op) ==
    /\ req.op = op
    /\ req.pc = "commit"
    /\ \E ok \in BOOLEAN :
          /\ catalog' = IF ok THEN Committed(catalog, work) ELSE catalog
          /\ req' = IF ok THEN [req EXCEPT !.trans = "committed", !.pc = "report"]
                    ELSE Raise("Error", "except")
          /\ hist' = [hist EXCEPT !.fault = @ \/ ~ok]
    /\ UNCHANGED <<work, calls, schemaResp>>

\* Except as it would be if the handler committed what the transaction holds
ExceptCommitting(op) ==
    /\ req.op = op
    /\ req.pc = "except"
    /\ catalog' = IF req.trans = "active" THEN Committed(catalog, work) ELSE catalog
    /\ req' = [req EXCEPT !.trans = IF @ = "active" THEN "committed" ELSE @,
                          !.exc = "HTTP400", !.pc = "outer"]
    /\ hist' = [hist EXCEPT !.rollbacks = Append(@, req.trans)]
    /\ UNCHANGED <<work, calls, schemaResp>>

\* Except as it would be if it raised the caught exception again
ExceptReraising(op) ==
    /\ req.op = op
    /\ req.pc = "except"
    /\ work' = IF req.trans = "active" THEN RolledBack(catalog, work) ELSE work
    /\ req' = [req EXCEPT !.trans = IF @ = "active" THEN "rolledback" ELSE @,
                          !.pc = "outer"]
    /\ hist' = [hist EXCEPT !.rollbacks = Append(@, req.trans)]
    /\ UNCHANGED <<catalog, calls, schemaResp>>

\* except Exception as e: trans.rollback(); raise HTTPException(status_code=400, ...)
Except(op) ==
    /\ req.op = op
    /\ req.pc = "except"
    /\ work' = IF req.trans = "active" THEN RolledBack(catalog, work) ELSE work
    /\ req' = [req EXCEPT !.trans = IF @ = "active" THEN "rolledback" ELSE @,
                          !.exc = "HTTP400", !.pc = "outer"]
    /\ hist' = [hist EXCEPT !.rollbacks = Append(@, req.trans)]
    /\ UNCHANGED <<catalog, calls, schemaResp>>

\* finally: connection.close()
Finally(op) ==
    /\ req.op = op
    /\ req.pc = "finally"
    /\ req' = IF req.conn = "unbound"
              THEN [req EXCEPT !.exc = "UnboundLocalError", !.response = NoResponse,
                               !.pc = "done"]
              ELSE [req EXCEPT !.conn = "closed", !.pc = "done"]
    /\ hist' = [hist EXCEPT !.bodyExc = req.exc,
                            !.closes = IF req.conn = "unbound" THEN @ ELSE @ + 1]
    /\ UNCHANGED <<catalog, work, calls, schemaResp>>

\* the columns part of both handlers' answers
Report(cat, table_name, fks) ==
    [name |-> table_name, columns |-> ReportColumns(cat, table_name),
     foreign_keys |-> fks]

(***************************************************************************)
(* create_table                                                            *)
(***************************************************************************)
CreateConnect == Connect("create")

CreateBegin == Begin("create", "create")

\* CreateExecute as it would be if an empty column list were passed over
CreateExecuteSkippingEmpty ==
    /\ req.op = "create"
    /\ req.pc = "create"
    /\ IF req.columns = <<>>
       THEN /\ req' = [req EXCEPT !.pc = "commit"]
            /\ UNCHANGED <<work, hist>>
       ELSE Execute(CreateTableSql(req.table_name, req.columns),
                    [req EXCEPT !.pc = "commit"])
    /\ UNCHANGED <<catalog, calls, schemaResp>>

CreateExecute ==
    /\ req.op = "create"
    /\ req.pc = "create"
    /\ Execute(CreateTableSql(req.table_name, req.columns), [req EXCEPT !.pc = "commit"])
    /\ UNCHANGED <<catalog, calls, schemaResp>>

CreateCommit == Commit("create")

CreateReport ==
    /\ req.op = "create"
    /\ req.pc = "report"
    /\ \E fault \in BOOLEAN :
          LET ok == req.table_name \in TableNames(catalog) /\ ~fault
          IN  /\ req' = IF ok
                        THEN [req EXCEPT !.response = Report(catalog, req.table_name, <<>>),
                                         !.pc = "finally"]
                        ELSE Raise("Error", "except")
              /\ hist' = [hist EXCEPT !.fault = @ \/ fault]
    /\ UNCHANGED <<catalog, work, calls, schemaResp>>

CreateExcept == Except("create")

\* CreateOuter as it would be if the outer handler swallowed the exception
CreateOuterSwallowing ==
    /\ req.op = "create"
    /\ req.pc = "outer"
    /\ req' = [req EXCEPT !.exc = "none", !.pc = "finally"]
    /\ UNCHANGED <<catalog, work, hist, calls, schemaResp>>

\* except Exception as e: raise HTTPException(status_code=500, ...)
CreateOuter ==
    /\ req.op = "create"
    /\ req.pc = "outer"
    /\ req' = [req EXCEPT !.exc = "HTTP500", !.pc = "finally"]
    /\ UNCHANGED <<catalog, work, hist, calls, schemaResp>>

CreateFinally == Finally("create")

(***************************************************************************)
(* update_table                                                            *)
(***************************************************************************)
UpdateConnect == Connect("update")

UpdateBegin == Begin("update", "inspect")

\* UpdateInspect as it would be without the existence check
UpdateInspectUnchecked ==
    /\ req.op = "update"
    /\ req.pc = "inspect"
    /\ \E fault \in BOOLEAN, stamp \in Stamps :
          /\ req' = IF fault THEN Raise("Error", "except")
                    ELSE [req EXCEPT
                            !.existing_columns =
                                IF req.table_name \in TableNames(catalog)
                                THEN Range(ColNames(catalog[req.table_name].cols))
                                ELSE {},
                            !.temp_table_name = TempName(req.table_name, stamp),
                            !.pc = "create"]
          /\ hist' = [hist EXCEPT !.fault = @ \/ fault]
    /\ UNCHANGED <<catalog, work, calls, schemaResp>>

\* the existence check, the old columns and the temporary name
UpdateInspect ==
    /\ req.op = "update"
    /\ req.pc = "inspect"
    /\ \E fault \in BOOLEAN, stamp \in Stamps :
          /\ req' = IF fault THEN Raise("Error", "except")
                    ELSE IF req.table_name \notin TableNames(catalog)
                    THEN Raise("HTTP404", "except")
                    ELSE [req EXCEPT
                            !.existing_columns =
                                Range(ColNames(catalog[req.table_name].cols)),
                            !.temp_table_name = TempName(req.table_name, stamp),
                            !.pc = "create"]
          /\ hist' = [hist EXCEPT !.fault = @ \/ fault]
    /\ UNCHANGED <<catalog, work, calls, schemaResp>>

UpdateCreateTemp ==
    /\ req.op = "update"
    /\ req.pc = "create"
    /\ Execute(TempTableSql(req.temp_table_name, req.columns), [req EXCEPT !.pc = "copy"])
    /\ UNCHANGED <<catalog, calls, schemaResp>>

\* UpdateCopy as it would be without the test for common columns
UpdateCopyUnguarded ==
    /\ req.op = "update"
    /\ req.pc = "copy"
    /\ Execute(CopySql(req.temp_table_name,
                       CommonColumns(req.columns, req.existing_columns),
                       req.table_name),
               [req EXCEPT !.pc = "drop"])
    /\ UNCHANGED <<catalog, calls, schemaResp>>

UpdateCopy ==
    /\ req.op = "update"
    /\ req.pc = "copy"
    /\ LET common == CommonColumns(req.columns, req.existing_columns)
       IN  IF req.columns # <<>> /\ common # <<>>
           THEN Execute(CopySql(req.temp_table_name, common, req.table_name),
                        [req EXCEPT !.pc = "drop"])
           ELSE /\ req' = [req EXCEPT !.pc = "drop"]
                /\ UNCHANGED <<work, hist>>
    /\ UNCHANGED <<catalog, calls, schemaResp>>

UpdateDrop ==
    /\ req.op = "update"
    /\ req.pc = "drop"
    /\ Execute(DropSql(req.table_name), [req EXCEPT !.pc = "rename"])
    /\ UNCHANGED <<catalog, calls, schemaResp>>

UpdateRename ==
    /\ req.op = "update"
    /\ req.pc = "rename"
    /\ Execute(RenameSql(req.temp_table_name, req.table_name), [req EXCEPT !.pc = "final"])
    /\ UNCHANGED <<catalog, calls, schemaResp>>

\* WantsRename as it would be with the comparison of the names inverted
WantsRenameInverted(name, table_name) == name.some /\ name.v # <<>> /\ name.v = table_name

\* if table_update.name and table_update.name != table_name
WantsRename(name, table_name) == name.some /\ name.v # <<>> /\ name.v # table_name

UpdateFinal ==
    /\ req.op = "update"
    /\ req.pc = "final"
    /\ IF WantsRename(req.name, req.table_name)
       THEN Execute(RenameSql(req.table_name, req.name.v),
                    [req EXCEPT !.table_name = req.name.v, !.pc = "commit"])
       ELSE /\ req' = [req EXCEPT !.pc = "commit"]
            /\ UNCHANGED <<work, hist>>
    /\ UNCHANGED <<catalog, calls, schemaResp>>

UpdateCommit == Commit("update")

UpdateReport ==
    /\ req.op = "update"
    /\ req.pc = "report"
    /\ \E fault \in BOOLEAN :
          LET ok == req.table_name \in TableNames(catalog) /\ ~fault
          IN  /\ req' = IF ok
                        THEN [req EXCEPT
                                !.response = Report(catalog, req.table_name,
                                                    ReportFks(catalog, req.table_name)),
                                !.pc = "finally"]
                        ELSE Raise("Error", "except")
              /\ hist' = [hist EXCEPT !.fault = @ \/ fault]
    /\ UNCHANGED <<catalog, work, calls, schemaResp>>

UpdateExcept == Except("update")

\* except HTTPException: raise / except Exception as e: raise HTTPException(500)
UpdateOuter ==
    /\ req.op = "update"
    /\ req.pc = "outer"
    /\ req' = [req EXCEPT !.exc = IF @ \in {"HTTP400", "HTTP404"} THEN @ ELSE "HTTP500",
                          !.pc = "finally"]
    /\ UNCHANGED <<catalog, work, hist, calls, schemaResp>>

UpdateFinally == Finally("update")

(***************************************************************************)
(* The other requests.                                                     *)
(***************************************************************************)
\* the answer has left the handler; its locals are gone and the client moves on
Return ==
    /\ req.pc = "done"
    /\ req' = Idle
    /\ hist' = NoHist
    /\ schemaResp' = NoSchema
    /\ UNCHANGED <<catalog, work, calls>>

\* GET /api/db/schema
GetDbSchemaRequest ==
    /\ req.pc \in {"idle", "done"}
    /\ schemaResp' = [fresh |-> TRUE, schema |-> GetDbSchema(catalog)]
    /\ UNCHANGED <<catalog, work, req, hist, calls>>

\* POST /api/v1/projects/ while the table still has the columns of class Project
CreateProject ==
    /\ req.pc = "idle"
    /\ Projects \in TableNames(catalog)
    /\ catalog[Projects].cols = ProjectColumns
    /\ Len(catalog[Projects].rows) < MaxRows
    /\ catalog' = [catalog EXCEPT ![Projects].rows =
                      Append(@, ProjectRow(Len(catalog[Projects].rows) + 1))]
    /\ work' = catalog'
    /\ schemaResp' = NoSchema
    /\ UNCHANGED <<req, hist, calls>>

Next ==
    \/ \E name \in CreateNames, columns \in ColumnLists : StartCreate(name, columns)
    \/ \E table_name \in UpdateTargets, name \in UpdateNames, columns \in ColumnLists :
          StartUpdate(table_name, name, columns)
    \/ CreateConnect \/ CreateBegin \/ CreateExecute \/ CreateCommit \/ CreateReport
    \/ CreateExcept \/ CreateOuter \/ CreateFinally
    \/ UpdateConnect \/ UpdateBegin \/ UpdateInspect \/ UpdateCreateTemp \/ UpdateCopy
    \/ UpdateDrop \/ UpdateRename \/ UpdateFinal \/ UpdateCommit \/ UpdateReport
    \/ UpdateExcept \/ UpdateOuter \/ UpdateFinally
    \/ Return \/ GetDbSchemaRequest \/ CreateProject

Spec == Init /\ [][Next]_vars

(***************************************************************************)
(* A second client. Its update_table runs on a connection of its own and   *)
(* is taken as one step, at the moment its transaction commits.            *)
(***************************************************************************)
\* every statement of the migration is accepted, each on the result of the
\* one before
CanMigrate(cat, table_name, temp, name, columns) ==
    LET common == CommonColumns(columns, Range(ColNames(cat[table_name].cols)))
        create == TempTableSql(temp, columns)
        copy == CopySql(temp, common, table_name)
        w1 == Apply(cat, create)
        w2 == IF columns # <<>> /\ common # <<>> THEN Apply(w1, copy) ELSE w1
        w3 == Apply(w2, DropSql(table_name))
        w4 == Apply(w3, RenameSql(temp, table_name))
    IN  /\ Accepts(cat, create)
        /\ (columns # <<>> /\ common # <<>>) => Accepts(w1, copy)
        /\ Accepts(w2, DropSql(table_name))
        /\ Accepts(w3, RenameSql(temp, table_name))
        /\ WantsRename(name, table_name) => Accepts(w4, RenameSql(table_name, name.v))

\* the catalog after the statements of an update that met no failure
Migrated(cat, table_name, temp, name, columns) ==
    LET common == CommonColumns(columns, Range(ColNames(cat[table_name].cols)))
        w1 == Apply(cat, TempTableSql(temp, columns))
        w2 == IF columns # <<>> /\ common # <<>>
              THEN Apply(w1, CopySql(temp, common, table_name)) ELSE w1
        w3 == Apply(w2, DropSql(table_name))
        w4 == Apply(w3, RenameSql(temp, table_name))
    IN  IF WantsRename(name, table_name)
        THEN Apply(w4, RenameSql(table_name, name.v)) ELSE w4

\* the second client's update of the table this request works on commits
\* while this request holds no lock of the database: between its reading of
\* the schema and its first statement, or between its commit and its answer
OtherUpdate ==
    /\ req.op \in {"create", "update"}
    /\ \/ req.pc \in {"inspect", "create"} /\ hist.sent = <<>>
       \/ req.pc = "report"
    /\ calls < MaxCalls
    /\ req.table_name \in TableNames(catalog)
    /\ \E name \in UpdateNames, columns \in ColumnLists, stamp \in Stamps :
          /\ CanMigrate(catalog, req.table_name, TempName(req.table_name, stamp),
                        name, columns)
          /\ catalog' = Migrated(catalog, req.table_name,
                                 TempName(req.table_name, stamp), name, columns)
    /\ work' = catalog'
    /\ calls' = calls + 1
    /\ UNCHANGED <<req, hist, schemaResp>>

NextConcurrent == Next \/ OtherUpdate

SpecConcurrent == Init /\ [][NextConcurrent]_vars

(***************************************************************************)
(* Properties.                                                             *)
(***************************************************************************)
Answered == req.pc = "done"
Succeeded == Answered /\ req.exc = "none"
UpdateAnswered == req.op = "update" /\ Answered
UpdateSucceeded == req.op = "update" /\ Succeeded
CreateAnswered == req.op = "create" /\ Answered
CreateSucceeded == req.op = "create" /\ Succeeded

\* the statements of the migration, by the position at which each is executed
MigrationSteps == {"create", "copy", "drop", "rename", "final"}

FailedInMigration == UpdateAnswered /\ hist.failedAt \in MigrationSteps

\* C1: an update one of whose migration statements (create temp, copy, drop,
\* rename, rename to the final name) failed leaves the table it was called on
\* with the columns and rows it had, and leaves no table that was not there
\* before: no temp table, none under the requested final name.
AtomicityOfUpdate ==
    FailedInMigration =>
        /\ hist.target \in TableNames(catalog)
        /\ catalog[hist.target] = hist.pre[hist.target]
        /\ TableNames(catalog) = TableNames(hist.pre)

\* an update that failed at its last statement, after all five were sent and
\* rows had been copied
AtomicityWitness ==
    /\ FailedInMigration
    /\ hist.failedAt = "final"
    /\ Len(hist.sent) = 5
    /\ hist.pre[hist.target].rows # <<>>

\* what a successful update is compared against
OldTable == hist.pre[hist.target]
NewTable == catalog[req.table_name]
SpecNames == ColNames(req.columns)
Shared == Range(SpecNames) \cap Range(ColNames(OldTable.cols))
SpecColumn(c) == CHOOSE col \in Range(req.columns) : col.name = c

\* the value of a column the old table did not have
ExpectedMissing(col) ==
    IF col.default.some /\ col.default.v # "" THEN Dflt(col.default.v) ELSE Null

RowKept(new, old) ==
    /\ DOMAIN new = Range(SpecNames)
    /\ \A c \in Range(SpecNames) :
          new[c] = IF c \in Shared THEN old[c] ELSE ExpectedMissing(SpecColumn(c))

RowsKept ==
    /\ Len(NewTable.rows) = Len(OldTable.rows)
    /\ \A i \in DOMAIN NewTable.rows : RowKept(NewTable.rows[i], OldTable.rows[i])

\* C2 as stated: after a successful update the table has the columns of the
\* request in the request's order and one row per old row, each row keeping the
\* old value in the shared columns and NULL or the default in the new ones.
DataPreservedAlways ==
    UpdateSucceeded => ColNames(NewTable.cols) = SpecNames /\ RowsKept

\* C2 as amended: the same, with one row per old row only when the request
\* shares a column name with the old table; when it shares none the table has
\* no rows.
DataPreserved ==
    UpdateSucceeded =>
        /\ ColNames(NewTable.cols) = SpecNames
        /\ IF Shared = {} THEN NewTable.rows = <<>> ELSE RowsKept

\* a successful update that keeps one column, drops four and adds one, of a
\* table with rows
DataPreservedWitness ==
    /\ UpdateSucceeded
    /\ Shared # {}
    /\ Range(SpecNames) \ Shared # {}
    /\ Range(ColNames(OldTable.cols)) \ Shared # {}
    /\ Len(OldTable.rows) > 1

SameSchema(cols, columns) ==
    /\ Len(cols) = Len(columns)
    /\ \A i \in DOMAIN cols :
          /\ cols[i].name = columns[i].name
          /\ cols[i].notnull = ~columns[i].nullable
          /\ cols[i].pk = columns[i].primary_key

HasNewSchema(t) == t \in TableNames(catalog) /\ SameSchema(catalog[t].cols, req.columns)

\* C3 as stated: a successful update whose request carries a name other than
\* the table's leaves no table under the old name and the new schema under the
\* requested name; without a name, or with the table's name, the table keeps
\* its name.
RenameAlways ==
    UpdateSucceeded =>
        IF req.name.some /\ req.name.v # hist.target
        THEN hist.target \notin TableNames(catalog) /\ HasNewSchema(req.name.v)
        ELSE HasNewSchema(hist.target)

\* C3 as amended: the rename happens for a non-empty name other than the
\* table's; with no name, the empty name or the table's name the table keeps
\* its name.
RenameCorrect ==
    UpdateSucceeded =>
        IF req.name.some /\ req.name.v # <<>> /\ req.name.v # hist.target
        THEN hist.target \notin TableNames(catalog) /\ HasNewSchema(req.name.v)
        ELSE HasNewSchema(hist.target)

\* "projects" successfully updated and renamed to "renamed"
RenameWitness ==
    /\ UpdateSucceeded
    /\ hist.target = Projects
    /\ req.name = SomeName(Renamed)
    /\ Renamed \in TableNames(catalog)

\* the whole of a request's statements was one CREATE TABLE of table t, rejected
OnlyRejectedCreate(t) ==
    /\ Len(hist.sent) = 1
    /\ hist.sent[1].op = "CREATE"
    /\ hist.sent[1].table = t
    /\ hist.failedAt = "create"

DuplicateCreate == CreateAnswered /\ hist.target \in TableNames(hist.pre)

\* C4 as stated: creating a table under a name the catalog already has fails,
\* the duplicate being found by introspection before any CREATE is emitted,
\* and the catalog is as before.
DuplicateRejectedBeforeCreate ==
    DuplicateCreate =>
        /\ req.exc # "none"
        /\ hist.sent = <<>>
        /\ catalog = hist.pre

\* C4 as amended: creating a table under a name the catalog already has fails
\* and leaves the catalog as before; the duplicate is found by the engine,
\* which rejects the CREATE TABLE that the handler sends without a prior check.
DuplicateRejectedByEngine ==
    DuplicateCreate =>
        /\ req.exc # "none"
        /\ catalog = hist.pre
        /\ req.trans # "none" => OnlyRejectedCreate(hist.target)

\* a duplicate create whose statement nothing but the name made fail
DuplicateWitness ==
    /\ DuplicateCreate
    /\ ~hist.fault
    /\ hist.sent # <<>>
    /\ CanCreate(Without(hist.pre, hist.target), hist.sent[1])
    /\ hist.pre[hist.target].rows # <<>>

InsertSent == \E i \in DOMAIN hist.sent : hist.sent[i].op = "INSERT"

\* the engine has no reason of its own to reject the statements of the update
Acceptable ==
    /\ CanCreate(hist.pre, TempTableSql(req.temp_table_name, req.columns))
    /\ WantsRename(req.name, hist.target) => req.name.v \notin TableNames(hist.pre)

\* C5: an update none of whose column names occurs in the old table executes
\* no copy statement, leaves the new schema with zero rows when it succeeds,
\* and succeeds whenever the engine accepts its statements.
EmptyIntersectionRebuild ==
    (req.op = "update" /\ hist.target \in TableNames(hist.pre) /\ Shared = {}) =>
        /\ ~InsertSent
        /\ Succeeded => HasNewSchema(req.table_name) /\ NewTable.rows = <<>>
        /\ Answered /\ ~hist.fault /\ Acceptable => req.exc = "none"

\* a successful update that shares no column with a table that had rows
EmptyIntersectionWitness ==
    /\ UpdateSucceeded
    /\ Shared = {}
    /\ OldTable.rows # <<>>
    /\ NewTable.rows = <<>>

\* C6: right after a successful create_table, get_db_schema has the table's
\* name and reports its columns with the names, order, nullability and
\* primary-key flags of the request.
RoundTrip ==
    CreateSucceeded /\ schemaResp.fresh =>
        /\ req.table_name \in DOMAIN schemaResp.schema
        /\ LET reported == schemaResp.schema[req.table_name].columns
           IN  /\ Len(reported) = Len(req.columns)
               /\ \A i \in DOMAIN reported :
                     /\ reported[i].name = req.columns[i].name
                     /\ reported[i].nullable = req.columns[i].nullable
                     /\ reported[i].primary_key = req.columns[i].primary_key

\* get_db_schema answered after a create of a key column and a nullable one
RoundTripWitness ==
    /\ CreateSucceeded
    /\ schemaResp.fresh
    /\ Len(req.columns) = 2
    /\ ~req.columns[1].nullable /\ req.columns[1].primary_key
    /\ req.columns[2].nullable

\* C7: an update of a table that the catalog does not have is answered with
\* 404 "Table ... not found", not with 400 "Failed to update table".
NotFoundReachesCaller ==
    UpdateAnswered /\ hist.target \notin TableNames(hist.pre) /\ ~hist.fault =>
        req.exc = "HTTP404"

TempCollision ==
    /\ req.op = "update"
    /\ req.temp_table_name # <<>>
    /\ req.temp_table_name \in TableNames(hist.pre)

\* C8 as stated: when the temporary name is the name of an existing table the
\* update aborts before any statement has been executed.
CollisionAbortsBeforeAnyStatement ==
    TempCollision =>
        /\ hist.sent = <<>>
        /\ Answered => req.exc # "none"

\* C8 as amended: when the temporary name is the name of an existing table the
\* update executes the CREATE TABLE of the temp table, which the engine
\* rejects; no other statement is executed, the answer is 400 and the catalog
\* is as before.
CollisionRejectedByEngine ==
    TempCollision /\ Answered =>
        /\ req.exc = "HTTP400"
        /\ catalog = hist.pre
        /\ OnlyRejectedCreate(req.temp_table_name)

\* an answered update whose temporary name was taken by a table with columns
CollisionWitness ==
    /\ TempCollision
    /\ Answered
    /\ hist.pre[req.temp_table_name].cols # <<>>
    /\ req.columns # <<>>

EmptyCreate == CreateAnswered /\ req.columns = <<>>

\* C9 as stated: a create with zero columns fails as a validation failure, no
\* CREATE TABLE having been sent to the engine.
EmptyColumnsRejectedByValidation ==
    EmptyCreate =>
        /\ req.exc # "none"
        /\ hist.sent = <<>>

\* C9 as amended: a create with zero columns fails and changes nothing, but
\* not by validation: once the transaction is open the CREATE TABLE with an
\* empty body is sent, and it is the engine that rejects it.
EmptyColumnsRejectedByEngine ==
    EmptyCreate =>
        /\ req.exc # "none"
        /\ catalog = hist.pre
        /\ req.trans # "none" => OnlyRejectedCreate(hist.target) /\ hist.sent[1].cols = <<>>

\* a create with zero columns under a free name, answered after its statement
EmptyColumnsWitness ==
    /\ EmptyCreate
    /\ ~hist.fault
    /\ hist.target \notin TableNames(hist.pre)
    /\ hist.sent # <<>>

\* C10: whenever a request is answered, a connection that was acquired has
\* been closed exactly once, and closing raised nothing that replaced the
\* outcome the handler had reached.
ScopedAcquisition ==
    Answered =>
        /\ req.conn # "unbound" => req.conn = "closed" /\ hist.closes = 1
        /\ req.exc = hist.bodyExc

\* one statement of the migration: the position it is executed at, its verb,
\* the table it is applied to and the second table it names
PlanEntry(step, op, table, other) ==
    [step |-> step, op |-> op, table |-> table, other |-> other]

\* the statements an update of hist.target has to execute, in order
MigrationPlan ==
    LET t == hist.target
        tmp == req.temp_table_name
    IN  <<PlanEntry("create", "CREATE", tmp, <<>>)>>
        \o (IF Shared # {} THEN <<PlanEntry("copy", "INSERT", tmp, t)>> ELSE <<>>)
        \o <<PlanEntry("drop", "DROP", t, <<>>), PlanEntry("rename", "RENAME", tmp, t)>>
        \o (IF req.name.some /\ req.name.v # <<>> /\ req.name.v # t
            THEN <<PlanEntry("final", "RENAME", t, req.name.v)>> ELSE <<>>)

\* the statement is the one the plan has at that position
Follows(st, entry) ==
    st.op = entry.op /\ st.table = entry.table /\ st.other = entry.other

\* C11: the statements an update has executed are, at every moment, the first
\* ones of create temp, copy (present exactly when the old and the new
\* columns share a name), drop, rename, rename to the final name (present
\* only when a different name is requested), each once and in this order; a
\* statement that failed is the last one executed; and the transaction is
\* committed only after every one of them was executed and none failed.
StatementOrder ==
    (req.op = "update" /\ hist.sent # <<>>) =>
        /\ Len(hist.sent) <= Len(MigrationPlan)
        /\ \A i \in DOMAIN hist.sent : Follows(hist.sent[i], MigrationPlan[i])
        /\ hist.failedAt # "none" => MigrationPlan[Len(hist.sent)].step = hist.failedAt
        /\ req.trans = "committed" =>
              hist.failedAt = "none" /\ Len(hist.sent) = Len(MigrationPlan)
        /\ (\E i \in DOMAIN hist.sent : hist.sent[i].op = "RENAME" /\ hist.sent[i].table = hist.target)
              => req.name.some /\ req.name.v # hist.target

\* an update of a table with rows, committed after all five statements
StatementOrderWitness ==
    /\ req.op = "update"
    /\ req.trans = "committed"
    /\ Len(hist.sent) = 5
    /\ hist.pre[hist.target].rows # <<>>

\* an update of a table that is not there, with nothing else going wrong: the
\* one failure a handler detects itself before it executes a statement
EarlyFailure ==
    /\ UpdateAnswered
    /\ hist.target \notin TableNames(hist.pre)
    /\ ~hist.fault

\* C12 as stated: a call that fails on a check made before any statement is
\* executed is answered without a transaction having been opened.
NoTransactionOnEarlyFailure ==
    EarlyFailure => req.trans = "none" /\ hist.rollbacks = <<>>

\* C12: table-not-found is the only failure detected before a statement is
\* executed; it is detected inside the transaction, which is rolled back once
\* with no statement executed and the catalog as it was. Every other call that
\* met no fault of the engine has executed at least its first statement: no
\* name check and no validation stops it earlier.
EarlyFailureRollsBack ==
    /\ EarlyFailure =>
          /\ req.exc # "none"
          /\ req.trans = "rolledback"
          /\ hist.rollbacks = <<"active">>
          /\ hist.sent = <<>>
          /\ catalog = hist.pre
    /\ (Answered /\ ~hist.fault /\ ~EarlyFailure) => hist.sent # <<>>

\* an update of a missing table answered after its transaction was rolled back
EarlyFailureWitness ==
    /\ EarlyFailure
    /\ req.trans = "rolledback"
    /\ req.conn = "closed"

\* the CREATE statement create_table would execute for the same table name
\* and the same columns
AsCreateTable(st) == CreateTableSql(st.table, req.columns)

SameColumnParts(st) == st.cols = AsCreateTable(st).cols

NamedConstraints(st) ==
    /\ Len(st.fks) = Len(AsCreateTable(st).fks)
    /\ \A k \in DOMAIN st.fks :
          /\ st.fks[k].named
          /\ st.fks[k] = AsCreateTable(st).fks[k]

\* C13: the CREATE statement an update executes for its temporary table has,
\* for every column, the NOT NULL, DEFAULT and PRIMARY KEY parts create_table
\* would give it, and for every column with a foreign key a CONSTRAINT clause
\* named from the table name, the column name and the column's position.
TempCreateFollowsCreateRules ==
    \A i \in DOMAIN hist.sent :
        (req.op = "update" /\ hist.sent[i].op = "CREATE") =>
            SameColumnParts(hist.sent[i]) /\ NamedConstraints(hist.sent[i])

\* the request has a column that refers to a table which was not in the
\* catalog when the request arrived, and which is not the table it creates
ForwardReference ==
    \E i \in DOMAIN req.columns :
        /\ req.columns[i].foreign_key.some
        /\ req.columns[i].foreign_key.table \notin TableNames(hist.pre)
        /\ req.columns[i].foreign_key.table # hist.target

\* C14: a create or an update one of whose columns refers to a table that is
\* not in the catalog when its CREATE statement is executed is answered with
\* an error, and the catalog is as it was before the call.
NoForwardReferences ==
    (Answered /\ ForwardReference) =>
        /\ req.exc # "none"
        /\ catalog = hist.pre

OutcomeMatchesCommit ==
    Answered =>
        /\ req.exc # "none" <=> req.trans # "committed"
        /\ "committed" \notin Range(hist.rollbacks)

====
